---- MODULE Spec2Model ----
(***************************************************************************)
(* A model of bgmi/utils/__init__.py: the update check (check_update and   *)
(* its inner update), the frontend installer (get_web_admin) and the cover *)
(* downloader (download_cover).  Text is a sequence of one-character       *)
(* strings, so that parsing, formatting and comparison are computed.       *)
(***************************************************************************)
EXTENDS Integers, Sequences, FiniteSets, TLC

\* ------------------------------------------------------------------ bounds
\* the clock value (seconds) at which the first call starts
Now0 == 2000000
\* how many check_update calls a behaviour makes
MaxCalls == 2
\* depth at which the interpreter refuses one more nested update() call
MaxDepth == 2
\* longest cover list whose entries and outcomes are enumerated freely
MaxUrls == 2
\* longest tail of an identifier given to normalize_path
MaxLen == 3
\* longest list of records given to episode_filter_regex
MaxRecords == 2

\* ------------------------------------------------------- program constants
\* 7 * 24 * 3600, the age after which the marker is stale
SevenDays == 7 * 24 * 3600
\* ThreadPool(4)
PoolSize == 4

\* ------------------------------------------------------------------- text
Digits == <<"0", "1", "2", "3", "4", "5", "6", "7", "8", "9">>

IsDigit(c) == \E i \in 1..10 : Digits[i] = c

DigitVal(c) == (CHOOSE i \in 1..10 : Digits[i] = c) - 1

\* code-point order of the characters version strings are made of
CharOrder == <<".", "0", "1", "2", "3", "4", "5", "6", "7", "8", "9", "x">>

Ord(c) == CHOOSE i \in 1..Len(CharOrder) : CharOrder[i] = c

IsSpace(c) == c \in {" ", "\n"}

RECURSIVE LStrip(_)
LStrip(s) == IF s # <<>> /\ IsSpace(Head(s)) THEN LStrip(Tail(s)) ELSE s

RECURSIVE RStrip(_)
RStrip(s) ==
  IF s # <<>> /\ IsSpace(s[Len(s)]) THEN RStrip(SubSeq(s, 1, Len(s) - 1)) ELSE s

RECURSIVE DigitsValue(_)
DigitsValue(s) ==
  IF s = <<>> THEN 0
  ELSE 10 * DigitsValue(SubSeq(s, 1, Len(s) - 1)) + DigitVal(s[Len(s)])

\* int(text) taking any text that is no integer for 0
PyInt_ZeroOnError(s) ==
  LET t == RStrip(LStrip(s))
  IN IF t # <<>> /\ \A i \in 1..Len(t) : IsDigit(t[i])
     THEN [ok |-> TRUE, val |-> DigitsValue(t)]
     ELSE [ok |-> TRUE, val |-> 0]

\* int(text): surrounding whitespace and one sign are accepted, then at
\* least one decimal digit; anything else is a ValueError (ok = FALSE)
PyInt(s) ==
  LET t == RStrip(LStrip(s))
      signed == t # <<>> /\ Head(t) \in {"+", "-"}
      d == IF signed THEN Tail(t) ELSE t
  IN IF d # <<>> /\ \A i \in 1..Len(d) : IsDigit(d[i])
     THEN [ok |-> TRUE,
           val |-> IF signed /\ Head(t) = "-" THEN 0 - DigitsValue(d)
                   ELSE DigitsValue(d)]
     ELSE [ok |-> FALSE, val |-> 0]

\* str(n) for n >= 0
RECURSIVE PyStr(_)
PyStr(n) ==
  IF n < 10 THEN <<Digits[n + 1]>>
  ELSE PyStr(n \div 10) \o <<Digits[(n % 10) + 1]>>

\* text.split(sep): the pieces between the separators, empty pieces kept
RECURSIVE Split(_, _)
Split(s, sep) ==
  IF \A i \in 1..Len(s) : s[i] # sep THEN <<s>>
  ELSE LET k == CHOOSE i \in 1..Len(s) :
                  s[i] = sep /\ \A j \in 1..(i - 1) : s[j] # sep
       IN <<SubSeq(s, 1, k - 1)>> \o Split(SubSeq(s, k + 1, Len(s)), sep)

\* [int(x) for x in v.split(".")]
IntList(v) ==
  LET parts == Split(v, ".")
  IN [ok |-> \A i \in 1..Len(parts) : PyInt(parts[i]).ok,
      val |-> [i \in 1..Len(parts) |-> PyInt(parts[i]).val]]

Min(a, b) == IF a < b THEN a ELSE b

\* a > b for two lists of integers: the first differing element decides,
\* and when one list is a prefix of the other the longer one is greater
RECURSIVE ListGreater(_, _)
ListGreater(a, b) ==
  IF a = <<>> THEN FALSE
  ELSE IF b = <<>> THEN TRUE
  ELSE IF Head(a) # Head(b) THEN Head(a) > Head(b)
  ELSE ListGreater(Tail(a), Tail(b))

\* a > b for two strings: code points compared left to right
StrGreater(a, b) ==
  ListGreater([i \in 1..Len(a) |-> Ord(a[i])], [i \in 1..Len(b) |-> Ord(b[i])])

\* the comparison the specification describes: component-wise on integers,
\* the shorter sequence padded with zeros
PadTo(a, n) == [i \in 1..n |-> IF i <= Len(a) THEN a[i] ELSE 0]

Max(a, b) == IF a > b THEN a ELSE b

ZeroPadGreater(a, b) ==
  LET n == Max(Len(a), Len(b)) IN ListGreater(PadTo(a, n), PadTo(b, n))

\* ------------------------------------------------------------------ paths
StartsWith(s, p) == Len(s) >= Len(p) /\ SubSeq(s, 1, Len(p)) = p

\* text.replace(old, new): every occurrence, left to right, not overlapping
RECURSIVE Replace(_, _, _)
Replace(s, old, new) ==
  IF s = <<>> THEN <<>>
  ELSE IF StartsWith(s, old)
  THEN new \o Replace(SubSeq(s, Len(old) + 1, Len(s)), old, new)
  ELSE <<Head(s)>> \o Replace(Tail(s), old, new)

Http == <<"h", "t", "t", "p", ":", "/", "/">>
Https == <<"h", "t", "t", "p", "s", ":", "/", "/">>

\* illegal_char
IllegalChars == <<":", "*", "?", "\"", "<", ">", "|", "'">>

\* for char in illegal_char: url = url.replace(char, "")
RECURSIVE StripIllegal(_, _)
StripIllegal(s, k) ==
  IF k > Len(IllegalChars) THEN s
  ELSE StripIllegal(Replace(s, <<IllegalChars[k]>>, <<>>), k + 1)

normalize_path(url) ==
  LET u == StripIllegal(Replace(Replace(url, Http, <<"h", "t", "t", "p", "/">>),
                                Https, <<"h", "t", "t", "p", "s", "/">>), 1)
  IN IF StartsWith(u, <<"/">>) THEN Tail(u) ELSE u

\* os.path.join(a, b) on POSIX
PathJoin(a, b) ==
  IF StartsWith(b, <<"/">>) THEN b
  ELSE IF a = <<>> \/ a[Len(a)] = "/" THEN a \o b
  ELSE a \o <<"/">> \o b

\* text.rstrip("/")
RECURSIVE RStripSlash(_)
RStripSlash(s) ==
  IF s # <<>> /\ s[Len(s)] = "/" THEN RStripSlash(SubSeq(s, 1, Len(s) - 1)) ELSE s

\* os.path.dirname(p) on POSIX
DirName(p) ==
  LET slashes == {i \in 1..Len(p) : p[i] = "/"}
      head == IF slashes = {} THEN <<>>
              ELSE SubSeq(p, 1, CHOOSE i \in slashes : \A j \in slashes : j <= i)
  IN IF head # <<>> /\ \E i \in 1..Len(head) : head[i] # "/"
     THEN RStripSlash(head) ELSE head

\* cfg.save_path
SavePath == <<"/", "s">>

\* (dir_path, file_path) of a cover
convert_cover_url_to_path(cover_url) ==
  LET file_path == PathJoin(PathJoin(SavePath, <<"c", "o", "v", "e", "r">>),
                            normalize_path(cover_url))
  IN <<DirName(file_path), file_path>>

\* --------------------------------------------------------------- versions
V_1_0 == <<"1", ".", "0">>
V_1_0_0 == <<"1", ".", "0", ".", "0">>
V_2_9 == <<"2", ".", "9">>
V_2_10 == <<"2", ".", "1", "0">>
V_3_0 == <<"3", ".", "0">>

\* version strings the registry can publish for the frontend
Versions == {V_1_0, V_1_0_0, V_2_10}

\* version strings the manifest of the installed bundle can hold at first
LocalVersions == {V_1_0, V_2_9}

\* bgmi.__version__, the version compiled in
BgmiVersion == V_2_9

\* version strings the package index can publish for bgmi
PypiVersions == {V_2_10, V_3_0}

\* ------------------------------------------------------- remote responses
\* what requests.get(...).json() can do: raise ConnectionError ("conn"),
\* raise ReadTimeout ("timeout"), raise JSONDecodeError ("badjson"), or
\* return a JSON object ("json")
NoBody == [hasVersion |-> FALSE, version |-> <<>>, hasError |-> FALSE]

Body(v) == [hasVersion |-> TRUE, version |-> v, hasError |-> FALSE]

ErrorBody == [hasVersion |-> FALSE, version |-> <<>>, hasError |-> TRUE]

Failure(k) == [kind |-> k, body |-> NoBody]

Failures == {Failure("conn"), Failure("timeout"), Failure("badjson")}

\* https://pypi.org/pypi/bgmi/json: info.version present or missing
PypiResponses ==
  Failures \cup {[kind |-> "json", body |-> NoBody]}
           \cup {[kind |-> "json", body |-> Body(v)] : v \in PypiVersions}

\* PACKAGE_JSON_URL: the version metadata, or the registry's error object
MetaResponses ==
  Failures \cup {[kind |-> "json", body |-> ErrorBody]}
           \cup {[kind |-> "json", body |-> Body(v)] : v \in Versions}

\* PACKAGE_JSON_URL asked again: a published version is immutable, so the
\* registry answers with the metadata v it gave before, or fails
MetaAgain(v) ==
  Failures \cup {[kind |-> "json", body |-> ErrorBody],
                 [kind |-> "json", body |-> Body(v)]}

\* FRONTEND_NPM_URL: hasVersion here says whether
\* r["versions"][v]["dist"]["tarball"] can be looked up
RegistryResponses ==
  Failures \cup {[kind |-> "json", body |-> NoBody],
                 [kind |-> "json", body |-> Body(<<>>)]}

\* ------------------------------------------------------------ the bundle
\* names of the files of the bundle installed before the first call
OldFiles == {"index.html", "old.js"}

\* the dist directories an archive may carry
DistSets == {{"index.html", "app.js"}}

\* the tarball body: not gzip data, gzip data that is no tar archive, an
\* archive without package/dist, or an archive with package/dist/<files>
Archives ==
  {[kind |-> k, dist |-> {}] : k \in {"badgzip", "badtar", "nodist"}}
    \cup {[kind |-> "ok", dist |-> d] : d \in DistSets}

NoArchive == [kind |-> "none", dist |-> {}]

\* the tarball request: ConnectionError, ReadTimeout or a response
TarResponses ==
  {[kind |-> k, archive |-> NoArchive] : k \in {"conn", "timeout"}}
    \cup {[kind |-> "resp", archive |-> a] : a \in Archives}

\* a file of the bundle root: its name and the install that put it there
File(n, g) == [name |-> n, gen |-> g]

NoManifest == [exists |-> FALSE, body |-> NoBody]

Manifest(b) == [exists |-> TRUE, body |-> b]

NoPkg == [exists |-> FALSE, hasDist |-> FALSE, dist |-> {}]

\* front_static_path: the files directly under it, its package/ directory
\* (with the files still under package/dist) and its package.json
Bundle(r, p, m) == [root |-> r, pkg |-> p, manifest |-> m]

EmptyBundle == Bundle({}, NoPkg, NoManifest)

InstalledBundle(v) ==
  Bundle({File(n, 0) : n \in OldFiles},
         [exists |-> TRUE, hasDist |-> TRUE, dist |-> {}],
         Manifest(Body(v)))

\* ------------------------------------------------------------ marker file
NoFile == [exists |-> FALSE, data |-> <<>>]

FileOf(text) == [exists |-> TRUE, data |-> text]

\* the contents <BGMI_PATH>/version may have when the first call starts
MarkerContents ==
  {PyStr(Now0 - SevenDays - 1), PyStr(Now0 - SevenDays),
   PyStr(Now0 - SevenDays - 1) \o <<"\n">>, <<"x">>}

\* ------------------------------------------------------------------ state
VARIABLES
  clock,          \* int(time.time()) at the last read of the time
  calls,          \* check_update calls started so far
  mark,           \* the argument of the running check_update call
  marker,         \* <BGMI_PATH>/version
  latest,         \* <BGMI_PATH>/latest
  bundle,         \* cfg.front_static_path
  pc,             \* the statement the running call is at
  depth,          \* nested update() frames on the stack
  site,           \* which update() call of check_update is running
  result,         \* how the last call ended
  checks,         \* update checks begun by the running call
  installs,       \* get_web_admin calls made by the running call
  gen,            \* get_web_admin calls made so far
  out,            \* messages printed by the running call
  admin_version,  \* update(): admin_version
  local_version,  \* update(): local_version
  bundle0,        \* the bundle when the running get_web_admin was called
  version,        \* get_web_admin(): version
  tar_file,       \* get_web_admin(): the downloaded archive
  todo,           \* get_web_admin(): listed dist files not moved yet
  gwa,            \* how the last get_web_admin call of the running call ended
  marker0,        \* <BGMI_PATH>/version when the running call started
  clock0,         \* the time when the running call started
  frac            \* time.time() had a fractional part when line 274 last read it

\* download_cover
VARIABLES
  cover_url_list, \* the argument of download_cover
  net,            \* what the network does with the fetch of each entry
  cpc,            \* the statement download_cover is at
  queue,          \* the next chunk of the map no worker has taken
  taken,          \* entries a worker holds and has not called download_file for
  running,        \* entries a worker is inside download_file for
  failed,         \* the map has stored an exception
  content_list,   \* the results collected so far
  fetched,        \* download_file calls made for each entry
  index,          \* the loop variable of the writing loop
  covers          \* the files under <save_path>/cover

\* normalize_path
VARIABLES
  identifier,     \* the argument of normalize_path
  npc,            \* how many times normalize_path has been applied
  once,           \* normalize_path(identifier)
  twice           \* normalize_path(normalize_path(identifier))

\* episode_filter_regex
VARIABLES
  episodes,       \* the argument data: the titles of the records, in order
  regex,          \* the argument regex
  debug,          \* os.getenv("DEBUG")
  enable_global_filters, \* cfg.enable_global_filters
  global_filters, \* cfg.global_filters
  fpc,            \* the statement episode_filter_regex is at
  kept,           \* the local data: positions of the records still in it
  warned          \* print_warning was called

cvars == <<cover_url_list, net, cpc, queue, taken, running, failed, content_list,
           fetched, index, covers>>

uvars == <<clock, calls, mark, marker, latest, bundle, pc, depth,
           site, result, checks, installs, gen, out, admin_version,
           local_version, bundle0, version, tar_file, todo, gwa, marker0,
           clock0, frac>>

\* locals of get_web_admin
gvars == <<bundle0, version, tar_file, todo>>

nvars == <<identifier, npc, once, twice>>

fvars == <<episodes, regex, debug, enable_global_filters, global_filters,
           fpc, kept, warned>>

vars == <<uvars, cvars, nvars, fvars>>

\* ------------------------------------------------------------ check_update
\* the comparison with >= for >: a marker of exactly seven days is stale
\* whatever the fraction of the second
IsStale_AtBoundary(now, part, data) == now - SevenDays >= data

\* time.time() - 7 * 24 * 3600 > data, for the time now + a fraction of a
\* second that is not zero when part is true: the float is greater than the
\* integer data when its whole seconds are, or when they are equal and
\* there is a fraction
IsStale(now, part, data) ==
  \/ now - SevenDays > data
  \/ part /\ now - SevenDays = data

\* str(int(time.time()))
Stamp(now) == PyStr(now)

\* seconds the wall clock moves while update() runs, that is between the
\* reads of lines 268 and 274: nothing bounds it (a request may block at
\* every read, the clock may be set), so it is none or more than seven days
Elapsed == {0, SevenDays + 1}

\* time.time() is read only by check_update itself, and after update() only
\* when the marker was missing (line 274 after line 269): the time update()
\* takes, nested frames included, is drawn once, in the outermost frame of
\* that call of update(); after the other call of update() the clock is
\* next read by the next check_update, whose distance Gaps draws
ElapsedAt(d, s) == IF d = 1 /\ s = "missing" THEN Elapsed ELSE {0}

\* the fraction of a second of the time line 274 reads decides only when
\* the whole seconds are exactly seven days after the stored ones
FractionsAt(now, file) ==
  IF PyInt(file.data).ok /\ now - SevenDays = PyInt(file.data).val
  THEN BOOLEAN ELSE {FALSE}

\* whole seconds the clock moves between the read of line 274, which decides,
\* and the read of line 276, whose value is written: the two reads are
\* adjacent statements, and nothing makes them give the same second; the
\* stamp is that of the second read, whatever the distance
Delays == {0, 1}

Call(m, gap) ==
  /\ pc = "idle"
  /\ calls < MaxCalls
  /\ calls' = calls + 1
  /\ clock' = clock + gap
  /\ mark' = m
  /\ pc' = "cu_exists"
  /\ result' = "none"
  /\ checks' = 0
  /\ installs' = 0
  /\ out' = {}
  /\ admin_version' = <<>>
  /\ local_version' = <<>>
  /\ bundle0' = EmptyBundle
  /\ version' = NoBody
  /\ tar_file' = NoArchive
  /\ todo' = {}
  /\ gwa' = "none"
  /\ marker0' = marker
  /\ clock0' = clock + gap
  /\ frac' = FALSE
  /\ UNCHANGED <<marker, latest, bundle, depth, site, gen>>
  /\ UNCHANGED <<cvars, nvars, fvars>>

\* a call of update() from check_update
EnterUpdate(s) ==
  /\ site' = s
  /\ depth' = 1
  /\ pc' = "u_pypi"

\* if not os.path.exists(version_file): write the time, update()
cu_exists ==
  /\ pc = "cu_exists"
  /\ IF ~marker.exists
     THEN /\ marker' = FileOf(Stamp(clock))
          /\ EnterUpdate("missing")
     ELSE /\ pc' = "cu_read"
          /\ UNCHANGED <<marker, site, depth>>
  /\ UNCHANGED <<clock, calls, mark, latest, bundle, result,
                 checks, installs, gen, out, admin_version, local_version,
                 gvars>>
  /\ UNCHANGED <<cvars, nvars, fvars>>
  /\ UNCHANGED <<gwa, marker0, clock0, frac>>

\* data = int(f.read()); a stale marker is rewritten and update() called;
\* ValueError is passed over. part: the time read at line 274 is not a whole
\* number of seconds; dt: the whole seconds from that read to the read of
\* line 276, the one that is written
cu_read(part, dt) ==
  /\ pc = "cu_read"
  /\ frac' = part
  /\ LET data == PyInt(marker.data)
     IN IF data.ok /\ IsStale(clock, part, data.val)
        THEN /\ clock' = clock + dt
             /\ marker' = FileOf(Stamp(clock + dt))
             /\ EnterUpdate("stale")
             /\ UNCHANGED result
        ELSE /\ pc' = "idle"
             /\ result' = "returned"
             /\ UNCHANGED <<clock, marker, site, depth>>
  /\ UNCHANGED <<calls, mark, latest, bundle, checks,
                 installs, gen, out, admin_version, local_version, gvars>>
  /\ UNCHANGED <<cvars, nvars, fvars>>
  /\ UNCHANGED <<gwa, marker0, clock0>>

\* ------------------------------------------------------------------ update
\* the statement after an update() frame that returned: the frame below an
\* inner frame is at "raise SystemExit", which no handler of this module
\* catches; under the outermost frame check_update goes on
ReturnFromUpdate ==
  IF depth > 1
  THEN /\ pc' = "idle"
       /\ result' = "SystemExit"
       /\ depth' = 0
  ELSE /\ depth' = 0
       /\ IF site = "missing"
          THEN pc' = "cu_read" /\ UNCHANGED result
          ELSE pc' = "idle" /\ result' = "returned"

\* an exception that is no Exception leaves every frame
Exit ==
  /\ pc' = "idle"
  /\ result' = "SystemExit"
  /\ depth' = 0

\* version > __version__ on the two strings
IsNewer(remote, local) == StrGreater(remote, local)

\* print_info("Checking update ..."), the package index request, the latest
\* file and the upgrade message
u_pypi(resp, dt) ==
  /\ pc = "u_pypi"
  /\ checks' = checks + 1
  /\ clock' = clock + dt
  /\ IF resp.kind = "json" /\ resp.body.hasVersion
     THEN /\ latest' = FileOf(resp.body.version)
          /\ out' = out \cup {IF IsNewer(resp.body.version, BgmiVersion)
                              THEN "please_update" ELSE "is_latest"}
          /\ pc' = "u_pkg"
     ELSE /\ pc' = "u_except"
          /\ UNCHANGED <<latest, out>>
  /\ UNCHANGED <<calls, mark, marker, bundle, depth, site,
                 result, installs, gen, admin_version, local_version, gvars>>
  /\ UNCHANGED <<cvars, nvars, fvars>>
  /\ UNCHANGED <<gwa, marker0, clock0, frac>>

\* [int(x) for x in admin_version.split(".")] >
\* [int(x) for x in local_version.split(".")]
NeedInstall(remote, local) == ListGreater(IntList(remote).val, IntList(local).val)

\* the version metadata request and the decision to install
u_pkg(resp) ==
  /\ pc = "u_pkg"
  /\ IF resp.kind = "json" /\ resp.body.hasVersion
     THEN /\ admin_version' = resp.body.version
          /\ IF bundle.manifest.exists
             THEN /\ local_version' = bundle.manifest.body.version
                  /\ IF ~bundle.manifest.body.hasVersion
                        \/ ~IntList(resp.body.version).ok
                        \/ ~IntList(bundle.manifest.body.version).ok
                     THEN /\ pc' = "u_except"
                          /\ UNCHANGED <<installs, gen, out, bundle0, gwa>>
                     ELSE IF NeedInstall(resp.body.version,
                                         bundle.manifest.body.version)
                     THEN /\ pc' = "g_fetch"
                          /\ installs' = installs + 1
                          /\ gen' = gen + 1
                          /\ bundle0' = bundle
                          /\ gwa' = "running"
                          /\ UNCHANGED out
                     ELSE /\ pc' = "u_tail"
                          /\ UNCHANGED <<installs, gen, out, bundle0, gwa>>
             ELSE /\ out' = out \cup {"hint_install"}
                  /\ pc' = "u_tail"
                  /\ UNCHANGED <<local_version, installs, gen, bundle0, gwa>>
     ELSE /\ pc' = "u_except"
          /\ UNCHANGED <<admin_version, local_version, installs, gen, out,
                         bundle0, gwa>>
  /\ UNCHANGED <<clock, calls, mark, marker, latest, bundle,
                 depth, site, result, checks, version, tar_file, todo>>
  /\ UNCHANGED <<cvars, nvars, fvars>>
  /\ UNCHANGED <<marker0, clock0, frac>>

\* if not mark: update(); raise SystemExit.  The nested call is refused with
\* RecursionError, an Exception, once the stack is full
u_tail ==
  /\ pc = "u_tail"
  /\ IF mark
     THEN ReturnFromUpdate
     ELSE IF depth < MaxDepth
     THEN /\ depth' = depth + 1
          /\ pc' = "u_pypi"
          /\ UNCHANGED result
     ELSE /\ pc' = "u_except"
          /\ UNCHANGED <<depth, result>>
  /\ UNCHANGED <<clock, calls, mark, marker, latest, bundle,
                 site, checks, installs, gen, out, admin_version,
                 local_version, gvars>>
  /\ UNCHANGED <<cvars, nvars, fvars>>
  /\ UNCHANGED <<gwa, marker0, clock0, frac>>

\* the handler also deleting the marker, so that the next call checks again
u_except_ClearMarker ==
  /\ pc = "u_except"
  /\ out' = out \cup {"check_failed"}
  /\ marker' = NoFile
  /\ ReturnFromUpdate
  /\ UNCHANGED <<clock, calls, mark, latest, bundle,
                 site, checks, installs, gen, admin_version, local_version,
                 gvars>>
  /\ UNCHANGED <<cvars, nvars, fvars>>
  /\ UNCHANGED <<gwa, marker0, clock0, frac>>

\* except Exception as e: print_warning(...), and the frame returns
u_except ==
  /\ pc = "u_except"
  /\ out' = out \cup {"check_failed"}
  /\ ReturnFromUpdate
  /\ UNCHANGED <<clock, calls, mark, marker, latest, bundle,
                 site, checks, installs, gen, admin_version, local_version,
                 gvars>>
  /\ UNCHANGED <<cvars, nvars, fvars>>
  /\ UNCHANGED <<gwa, marker0, clock0, frac>>

\* ----------------------------------------------------------- get_web_admin
\* how the three requests of the first block end: "conn" and "badjson" are
\* the two exceptions the block catches, "timeout" and "keyerror" leave
\* get_web_admin, "exit" is print_error's sys.exit(1), "ok" is a tarball
Step1(r1, r2, r3) ==
  IF r1.kind # "json" THEN r1.kind
  ELSE IF r2.kind # "json" THEN r2.kind
  ELSE IF r2.body.hasError THEN "exit"
  ELSE IF ~r2.body.hasVersion \/ ~r1.body.hasVersion THEN "keyerror"
  ELSE IF r3.kind # "resp" THEN r3.kind
  ELSE "ok"

\* no response: the request is not made
NotAsked == [kind |-> "none", body |-> NoBody]

\* the version metadata is asked for once the registry entry has arrived
MetaAgainAfter(r1, v) == IF r1.kind = "json" THEN MetaAgain(v) ELSE {NotAsked}

\* the tarball is asked for once its URL has been looked up
TarResponsesAfter(r1, r2) ==
  IF r1.kind = "json" /\ r2.kind = "json" /\ r1.body.hasVersion
     /\ r2.body.hasVersion /\ ~r2.body.hasError
  THEN TarResponses ELSE {[kind |-> "none", archive |-> NoArchive]}

\* get_web_admin with the bundle directory removed before the requests
g_fetch_rmtree_first(r1, r2, r3) ==
  /\ pc = "g_fetch"
  /\ LET o == Step1(r1, r2, r3)
     IN CASE o \in {"conn", "badjson"} ->
               /\ out' = out \cup {"download_failed"}
               /\ pc' = "u_tail"
               /\ gwa' = "returned"
               /\ bundle' = EmptyBundle
               /\ UNCHANGED <<depth, result, version, tar_file>>
          [] o \in {"timeout", "keyerror"} ->
               /\ pc' = "u_except"
               /\ gwa' = "raised"
               /\ UNCHANGED <<depth, result, out, version, tar_file, bundle>>
          [] o = "exit" ->
               /\ out' = out \cup {"npm_error"}
               /\ Exit
               /\ gwa' = "exit"
               /\ UNCHANGED <<version, tar_file, bundle>>
          [] o = "ok" ->
               /\ version' = r2.body
               /\ tar_file' = r3.archive
               /\ pc' = "g_gunzip"
               /\ UNCHANGED <<depth, result, out, gwa, bundle>>
  /\ UNCHANGED <<clock, calls, mark, marker, latest,
                 site, checks, installs, gen, admin_version, local_version,
                 bundle0, todo>>
  /\ UNCHANGED <<cvars, nvars, fvars>>
  /\ UNCHANGED <<marker0, clock0, frac>>

\* lines 326-340: the registry entry, the version metadata, the tarball
g_fetch(r1, r2, r3) ==
  /\ pc = "g_fetch"
  /\ LET o == Step1(r1, r2, r3)
     IN CASE o \in {"conn", "badjson"} ->
               /\ out' = out \cup {"download_failed"}
               /\ pc' = "u_tail"
               /\ gwa' = "returned"
               /\ UNCHANGED <<depth, result, version, tar_file>>
          [] o \in {"timeout", "keyerror"} ->
               /\ pc' = "u_except"
               /\ gwa' = "raised"
               /\ UNCHANGED <<depth, result, out, version, tar_file>>
          [] o = "exit" ->
               /\ out' = out \cup {"npm_error"}
               /\ Exit
               /\ gwa' = "exit"
               /\ UNCHANGED <<version, tar_file>>
          [] o = "ok" ->
               /\ version' = r2.body
               /\ tar_file' = r3.archive
               /\ pc' = "g_gunzip"
               /\ UNCHANGED <<depth, result, out, gwa>>
  /\ UNCHANGED <<clock, calls, mark, marker, latest, bundle,
                 site, checks, installs, gen, admin_version, local_version,
                 bundle0, todo>>
  /\ UNCHANGED <<cvars, nvars, fvars>>
  /\ UNCHANGED <<marker0, clock0, frac>>

\* the decompression placed after rmtree and makedirs
g_gunzip_after_rmtree ==
  /\ pc = "g_gunzip"
  /\ pc' = IF tar_file.kind = "badgzip" THEN "u_except" ELSE "g_rmtree"
  /\ gwa' = IF tar_file.kind = "badgzip" THEN "raised" ELSE gwa
  /\ bundle' = IF tar_file.kind = "badgzip" THEN EmptyBundle ELSE bundle
  /\ UNCHANGED <<clock, calls, mark, marker, latest,
                 depth, site, result, checks, installs, gen, out,
                 admin_version, local_version, gvars>>
  /\ UNCHANGED <<cvars, nvars, fvars>>
  /\ UNCHANGED <<marker0, clock0, frac>>

\* gzip.GzipFile(fileobj=admin_zip).read()
g_gunzip ==
  /\ pc = "g_gunzip"
  /\ pc' = IF tar_file.kind = "badgzip" THEN "u_except" ELSE "g_rmtree"
  /\ gwa' = IF tar_file.kind = "badgzip" THEN "raised" ELSE gwa
  /\ UNCHANGED <<clock, calls, mark, marker, latest, bundle,
                 depth, site, result, checks, installs, gen, out,
                 admin_version, local_version, gvars>>
  /\ UNCHANGED <<cvars, nvars, fvars>>
  /\ UNCHANGED <<marker0, clock0, frac>>

\* the step without rmtree: only the manifest goes, the files stay
g_rmtree_keep ==
  /\ pc = "g_rmtree"
  /\ bundle' = [bundle EXCEPT !.manifest = NoManifest]
  /\ pc' = "g_extract"
  /\ UNCHANGED <<clock, calls, mark, marker, latest, depth,
                 site, result, checks, installs, gen, out, admin_version,
                 local_version, gvars>>
  /\ UNCHANGED <<cvars, nvars, fvars>>
  /\ UNCHANGED <<gwa, marker0, clock0, frac>>

\* rmtree(cfg.front_static_path); os.makedirs(cfg.front_static_path)
g_rmtree ==
  /\ pc = "g_rmtree"
  /\ bundle' = EmptyBundle
  /\ pc' = "g_extract"
  /\ UNCHANGED <<clock, calls, mark, marker, latest, depth,
                 site, result, checks, installs, gen, out, admin_version,
                 local_version, gvars>>
  /\ UNCHANGED <<cvars, nvars, fvars>>
  /\ UNCHANGED <<gwa, marker0, clock0, frac>>

\* the extraction with package.json written at once, before the files move
g_extract_manifest_first ==
  /\ pc = "g_extract"
  /\ IF tar_file.kind = "badtar"
     THEN pc' = "u_except" /\ gwa' = "raised" /\ UNCHANGED bundle
     ELSE /\ UNCHANGED gwa
          /\ bundle' = [bundle EXCEPT !.pkg = [exists |-> TRUE,
                                               hasDist |-> tar_file.kind = "ok",
                                               dist |-> tar_file.dist],
                                      !.manifest = Manifest(version)]
          /\ pc' = "g_listdir"
  /\ UNCHANGED <<clock, calls, mark, marker, latest, depth,
                 site, result, checks, installs, gen, out, admin_version,
                 local_version, gvars>>
  /\ UNCHANGED <<cvars, nvars, fvars>>
  /\ UNCHANGED <<marker0, clock0, frac>>

\* tarfile.open(fileobj=tar_file).extractall(path=cfg.front_static_path)
g_extract ==
  /\ pc = "g_extract"
  /\ IF tar_file.kind = "badtar"
     THEN pc' = "u_except" /\ gwa' = "raised" /\ UNCHANGED bundle
     ELSE /\ UNCHANGED gwa
          /\ bundle' = [bundle EXCEPT !.pkg = [exists |-> TRUE,
                                               hasDist |-> tar_file.kind = "ok",
                                               dist |-> tar_file.dist]]
          /\ pc' = "g_listdir"
  /\ UNCHANGED <<clock, calls, mark, marker, latest, depth,
                 site, result, checks, installs, gen, out, admin_version,
                 local_version, gvars>>
  /\ UNCHANGED <<cvars, nvars, fvars>>
  /\ UNCHANGED <<marker0, clock0, frac>>

\* os.listdir(<front_static_path>/package/dist)
g_listdir ==
  /\ pc = "g_listdir"
  /\ IF bundle.pkg.hasDist
     THEN pc' = "g_move" /\ todo' = bundle.pkg.dist /\ UNCHANGED gwa
     ELSE pc' = "u_except" /\ gwa' = "raised" /\ UNCHANGED todo
  /\ UNCHANGED <<clock, calls, mark, marker, latest, bundle,
                 depth, site, result, checks, installs, gen, out,
                 admin_version, local_version, bundle0, version, tar_file>>
  /\ UNCHANGED <<cvars, nvars, fvars>>
  /\ UNCHANGED <<marker0, clock0, frac>>

\* one turn of the loop: move(package/dist/<file>, <front_static_path>/<file>)
g_move(file) ==
  /\ pc = "g_move"
  /\ file \in todo
  /\ bundle' = [bundle EXCEPT
                   !.root = {f \in @ : f.name # file} \cup {File(file, gen)},
                   !.pkg.dist = @ \ {file}]
  /\ todo' = todo \ {file}
  /\ UNCHANGED pc
  /\ UNCHANGED <<clock, calls, mark, marker, latest, depth,
                 site, result, checks, installs, gen, out, admin_version,
                 local_version, bundle0, version, tar_file>>
  /\ UNCHANGED <<cvars, nvars, fvars>>
  /\ UNCHANGED <<gwa, marker0, clock0, frac>>

\* the manifest json.dumps(version) is written to package.json, print_success
g_manifest ==
  /\ pc = "g_move"
  /\ todo = {}
  /\ bundle' = [bundle EXCEPT !.manifest = Manifest(version)]
  /\ out' = out \cup {"install_success"}
  /\ pc' = "u_tail"
  /\ gwa' = "returned"
  /\ UNCHANGED <<clock, calls, mark, marker, latest, depth,
                 site, result, checks, installs, gen, admin_version,
                 local_version, gvars>>
  /\ UNCHANGED <<cvars, nvars, fvars>>
  /\ UNCHANGED <<marker0, clock0, frac>>

\* ---------------------------------------------------------- specification
\* the state of the part of the program a specification leaves alone
UpdateQuiet ==
  /\ clock = Now0
  /\ calls = 0
  /\ mark = TRUE
  /\ marker = NoFile
  /\ latest = NoFile
  /\ bundle = EmptyBundle
  /\ pc = "off"
  /\ depth = 0
  /\ site = "none"
  /\ result = "none"
  /\ checks = 0
  /\ installs = 0
  /\ gen = 0
  /\ out = {}
  /\ admin_version = <<>>
  /\ local_version = <<>>
  /\ bundle0 = EmptyBundle
  /\ version = NoBody
  /\ tar_file = NoArchive
  /\ todo = {}
  /\ gwa = "none"
  /\ marker0 = NoFile
  /\ clock0 = Now0
  /\ frac = FALSE

CoverQuiet ==
  /\ cover_url_list = <<>>
  /\ net = <<>>
  /\ cpc = "off"
  /\ queue = 1
  /\ taken = {}
  /\ running = {}
  /\ failed = FALSE
  /\ content_list = <<>>
  /\ fetched = <<>>
  /\ index = 1
  /\ covers = {}

\* seconds between the end of a call and the next one; the first of the c
\* calls made so far starts at Now0
Gaps(c) == IF c = 0 THEN {0} ELSE {1, SevenDays + 1}

PathQuiet ==
  /\ identifier = <<>>
  /\ npc = 0
  /\ once = <<>>
  /\ twice = <<>>

FilterQuiet ==
  /\ episodes = <<>>
  /\ regex = [given |-> FALSE, text |-> <<>>]
  /\ debug = [given |-> FALSE, text |-> <<>>]
  /\ enable_global_filters = FALSE
  /\ global_filters = <<>>
  /\ fpc = "off"
  /\ kept = <<>>
  /\ warned = FALSE

Init ==
  /\ CoverQuiet
  /\ PathQuiet
  /\ FilterQuiet
  /\ clock = Now0
  /\ calls = 0
  /\ mark = TRUE
  /\ marker \in {NoFile} \cup {FileOf(t) : t \in MarkerContents}
  /\ latest = NoFile
  /\ bundle \in {EmptyBundle} \cup {InstalledBundle(v) : v \in LocalVersions}
  /\ pc = "idle"
  /\ depth = 0
  /\ site = "none"
  /\ result = "none"
  /\ checks = 0
  /\ installs = 0
  /\ gen = 0
  /\ out = {}
  /\ admin_version = <<>>
  /\ local_version = <<>>
  /\ bundle0 = EmptyBundle
  /\ version = NoBody
  /\ tar_file = NoArchive
  /\ todo = {}
  /\ gwa = "none"
  /\ marker0 = NoFile
  /\ clock0 = Now0
  /\ frac = FALSE

Next ==
  \/ \E m \in BOOLEAN, gap \in Gaps(calls) : Call(m, gap)
  \/ cu_exists
  \/ \E part \in FractionsAt(clock, marker), dt \in Delays : cu_read(part, dt)
  \/ \E resp \in PypiResponses, dt \in ElapsedAt(depth, site) : u_pypi(resp, dt)
  \/ \E resp \in MetaResponses : u_pkg(resp)
  \/ u_tail
  \/ u_except
  \/ \E r1 \in RegistryResponses :
       \E r2 \in MetaAgainAfter(r1, admin_version) :
         \E r3 \in TarResponsesAfter(r1, r2) : g_fetch(r1, r2, r3)
  \/ g_gunzip
  \/ g_rmtree
  \/ g_extract
  \/ g_listdir
  \/ \E file \in UNION DistSets : g_move(file)
  \/ g_manifest


Spec == Init /\ [][Next]_vars

\* ---------------------------------------------------------- download_cover
\* a URL of the long lists: http://<k>
UrlN(k) == Http \o PyStr(k)

UrlA == Http \o <<"a">>
UrlAq == Http \o <<"a", "?">>
UrlAs == Https \o <<"a">>
UrlFtp == <<"f", "t", "p", ":", "/", "/", "a">>

\* the entries of the short lists: two that resolve to one path, an https
\* one and one download_file does not fetch
CoverUrls == {UrlA, UrlAq, UrlAs, UrlFtp}

\* what requests.get(url, timeout=60) can do: return a response with a body
\* ("ok"), a response with status 200 and no body ("empty"), a response with
\* an error status ("status"), or raise ConnectionError ("conn")
Outcomes == {"ok", "empty", "status", "conn"}

\* the multiplier of the pool size in the chunk size Pool.map computes
ChunkFactor == 4

\* lengths of the long lists: one entry more than the pool has workers, and
\* one more than the list a chunk size of one can hold
LongLens == {PoolSize + 1, PoolSize * ChunkFactor + 1}

\* what download_file returned: None, or a response (ok: status below 400)
None == [kind |-> "none", ok |-> FALSE, content |-> 0]

Response(ok, content) == [kind |-> "resp", ok |-> ok, content |-> content]

\* an entry of content_list not collected yet
Pending == [kind |-> "pending", ok |-> FALSE, content |-> 0]

\* bool(r): None is false, a response is true when its status is below 400
Truthy(r) == r.kind = "resp" /\ r.ok

\* the fetch of entry i raises
Raises(url, o) == (StartsWith(url, Https) \/ StartsWith(url, Http)) /\ o = "conn"

\* download_file(url) when the network does o; the body served for entry i
\* is named i, the empty body 0
download_file(url, o, i) ==
  IF StartsWith(url, Https) \/ StartsWith(url, Http)
  THEN CASE o = "ok" -> Response(TRUE, i)
         [] o = "empty" -> Response(TRUE, 0)
         [] OTHER -> Response(FALSE, 0)
  ELSE None

\* Pool.map: chunksize, extra = divmod(len(iterable), len(pool) * 4)
ChunkSize(n) ==
  IF n = 0 THEN 0
  ELSE (n + PoolSize * ChunkFactor - 1) \div (PoolSize * ChunkFactor)

NumChunks(n) == IF n = 0 THEN 0 ELSE (n + ChunkSize(n) - 1) \div ChunkSize(n)

ChunkFirst(c, n) == (c - 1) * ChunkSize(n) + 1

ChunkLast(c, n) == Min(c * ChunkSize(n), n)

ChunkOf(i, n) == ((i - 1) \div ChunkSize(n)) + 1

N == Len(cover_url_list)

\* a worker of the pool that holds no chunk takes the next one from the
\* task queue: its first entry is the one it will call download_file for
Take ==
  /\ cpc = "map"
  /\ queue <= NumChunks(N)
  /\ Cardinality(taken \cup running) < PoolSize
  /\ taken' = taken \cup {ChunkFirst(queue, N)}
  /\ queue' = queue + 1
  /\ UNCHANGED <<cover_url_list, net, cpc, running, failed, content_list,
                 fetched, index, covers>>
  /\ UNCHANGED <<uvars, nvars, fvars>>

\* the worker that holds entry i calls download_file(cover_url_list[i]); the
\* workers run in any order, so the calls need not begin in list order
Begin(i) ==
  /\ cpc = "map"
  /\ i \in taken
  /\ taken' = taken \ {i}
  /\ running' = running \cup {i}
  /\ fetched' = [fetched EXCEPT ![i] = @ + 1]
  /\ UNCHANGED <<cover_url_list, net, cpc, queue, failed, content_list,
                 index, covers>>
  /\ UNCHANGED <<uvars, nvars, fvars>>

\* download_file ends for entry i: an exception ends the worker's chunk and
\* is stored by the map, a result is collected and the worker holds the
\* next entry of its chunk
FetchDone(i) ==
  /\ cpc = "map"
  /\ i \in running
  /\ running' = running \ {i}
  /\ IF Raises(cover_url_list[i], net[i])
     THEN /\ failed' = TRUE
          /\ UNCHANGED <<content_list, taken>>
     ELSE /\ content_list' =
               [content_list EXCEPT ![i] = download_file(cover_url_list[i], net[i], i)]
          /\ taken' = IF i < ChunkLast(ChunkOf(i, N), N)
                      THEN taken \cup {i + 1} ELSE taken
          /\ UNCHANGED failed
  /\ UNCHANGED <<cover_url_list, net, cpc, queue, fetched, index, covers>>
  /\ UNCHANGED <<uvars, nvars, fvars>>

\* p.map returns once every chunk has ended: the stored exception is raised
\* in download_cover, or the list is returned and p.close() called
MapReturn ==
  /\ cpc = "map"
  /\ queue > NumChunks(N)
  /\ taken = {}
  /\ running = {}
  /\ cpc' = IF failed THEN "raised" ELSE "write"
  /\ index' = 1
  /\ UNCHANGED <<cover_url_list, net, queue, taken, running, failed, content_list,
                 fetched, covers>>
  /\ UNCHANGED <<uvars, nvars, fvars>>

\* a write that leaves a file that is already there
WriteFile_KeepFirst(files, path, data) ==
  IF \E f \in files : f.path = path THEN files
  ELSE files \cup {[path |-> path, data |-> data]}

\* open(file_path, "wb").write(data): the file is created or replaced
WriteFile(files, path, data) ==
  {f \in files : f.path # path} \cup {[path |-> path, data |-> data]}

\* one turn of the loop over content_list
WriteCover ==
  /\ cpc = "write"
  /\ index <= N
  /\ covers' = IF Truthy(content_list[index])
               THEN WriteFile(covers,
                              convert_cover_url_to_path(cover_url_list[index])[2],
                              content_list[index].content)
               ELSE covers
  /\ index' = index + 1
  /\ UNCHANGED <<cover_url_list, net, cpc, queue, taken, running, failed,
                 content_list, fetched>>
  /\ UNCHANGED <<uvars, nvars, fvars>>

\* the loop is over and download_cover returns
Return ==
  /\ cpc = "write"
  /\ index > N
  /\ cpc' = "done"
  /\ UNCHANGED <<cover_url_list, net, queue, taken, running, failed, content_list,
                 fetched, index, covers>>
  /\ UNCHANGED <<uvars, nvars, fvars>>

\* ---------------------------------------------------------- specifications
\* the long lists: distinct URLs, every fetch succeeding but at most one
LongInputs ==
  {[urls |-> [i \in 1..n |-> UrlN(i)],
    net |-> [i \in 1..n |-> IF i = bad THEN "conn" ELSE "ok"]] :
     n \in LongLens, bad \in 0..(PoolSize * ChunkFactor + 1)}

\* the short lists: every list of CoverUrls and every outcome of its fetches
ShortInputs ==
  UNION {{[urls |-> u, net |-> o] : u \in [1..n -> CoverUrls],
                                     o \in [1..n -> Outcomes]} : n \in 0..MaxUrls}

\* download_cover(cover_url_list) has been called and the pool created
InitCover ==
  /\ UpdateQuiet
  /\ PathQuiet
  /\ FilterQuiet
  /\ \E in \in ShortInputs \cup LongInputs :
       /\ cover_url_list = in.urls
       /\ net = in.net
       /\ content_list = [i \in 1..Len(in.urls) |-> Pending]
       /\ fetched = [i \in 1..Len(in.urls) |-> 0]
  /\ cpc = "map"
  /\ queue = 1
  /\ taken = {}
  /\ running = {}
  /\ failed = FALSE
  /\ index = 1
  /\ covers = {}

NextCover ==
  \/ Take
  \/ \E i \in 1..N : Begin(i)
  \/ \E i \in 1..N : FetchDone(i)
  \/ MapReturn
  \/ WriteCover
  \/ Return

SpecCover == InitCover /\ [][NextCover]_vars

\* ---------------------------------------------------------- normalize_path
\* the characters the identifiers are made of after their scheme: the path
\* separator, two of the characters normalize_path deletes, and a letter
PathChars == {"/", ":", "?", "a"}

RECURSIVE Strings(_, _)
Strings(chars, n) ==
  IF n = 0 THEN {<<>>}
  ELSE Strings(chars, n - 1)
         \cup {<<c>> \o t : c \in chars, t \in Strings(chars, n - 1)}

\* the identifiers: no scheme, http:// or https://, then up to MaxLen
\* characters
Identifiers ==
  {pre \o t : pre \in {<<>>, Http, Https}, t \in Strings(PathChars, MaxLen)}

\* normalize_path(identifier)
Normalize ==
  /\ npc = 0
  /\ once' = normalize_path(identifier)
  /\ npc' = 1
  /\ UNCHANGED <<identifier, twice>>
  /\ UNCHANGED <<uvars, cvars, fvars>>

\* normalize_path applied to the path it returned
NormalizeAgain ==
  /\ npc = 1
  /\ twice' = normalize_path(once)
  /\ npc' = 2
  /\ UNCHANGED <<identifier, once>>
  /\ UNCHANGED <<uvars, cvars, fvars>>

InitPath ==
  /\ UpdateQuiet
  /\ CoverQuiet
  /\ FilterQuiet
  /\ identifier \in Identifiers
  /\ npc = 0
  /\ once = <<>>
  /\ twice = <<>>

NextPath ==
  \/ Normalize
  \/ NormalizeAgain

SpecPath == InitPath /\ [][NextPath]_vars

\* ---------------------------------------------------- episode_filter_regex
\* an optional string: None, or the text
NoneText == [given |-> FALSE, text |-> <<>>]

Text(t) == [given |-> TRUE, text |-> t]

\* bool(x) of an optional string
TruthyText(x) == x.given /\ x.text # <<>>

\* str.lower() on the letters the titles and keywords are made of
LowerChar(c) == IF c = "A" THEN "a" ELSE IF c = "B" THEN "b" ELSE c

Lower(s) == [i \in 1..Len(s) |-> LowerChar(s[i])]

\* str.strip()
Strip(s) == RStrip(LStrip(s))

\* k in t on two strings
Contains(t, k) ==
  \E i \in 1..(Len(t) + 1) :
    i + Len(k) - 1 <= Len(t) /\ SubSeq(t, i, i + Len(k) - 1) = k

\* sre_constants.MAXREPEAT is 4294967295: a repeat count of more than ten
\* digits is above it
MaxRepeatDigits == 10

\* the pattern holds a repeat {n} with n of more than MaxRepeatDigits digits
HugeRepeat(p) ==
  \E i \in 1..Len(p), j \in 1..Len(p) :
    /\ p[i] = "{" /\ p[j] = "}" /\ j - i - 1 > MaxRepeatDigits
    /\ \A k \in (i + 1)..(j - 1) : IsDigit(p[k])

\* how many times c occurs in p
Count(p, c) == Cardinality({i \in 1..Len(p) : p[i] = c})

\* re.compile(p): OverflowError for a repeat count above MAXREPEAT, re.error
\* for a parenthesis that is not closed or not opened, else a pattern
Compile(p) ==
  IF HugeRepeat(p) THEN "OverflowError"
  ELSE IF Count(p, "(") # Count(p, ")") THEN "re.error"
  ELSE "ok"

\* the pattern atoms from position k on match t from position i on: "."
\* is any character but a newline, another character is itself
RECURSIVE MatchHere(_, _, _, _)
MatchHere(p, k, t, i) ==
  IF k > Len(p) THEN TRUE
  ELSE /\ i <= Len(t)
       /\ (p[k] = "." /\ t[i] # "\n") \/ (p[k] # "." /\ p[k] = t[i])
       /\ MatchHere(p, k + 1, t, i + 1)

\* match.findall(title) is not empty: the pattern matches somewhere, or at
\* the start of the title when it begins with "^"
Findall(p, t) ==
  IF p # <<>> /\ Head(p) = "^"
  THEN MatchHere(p, 2, t, 1)
  ELSE \E i \in 1..(Len(t) + 1) : MatchHere(p, 1, t, i)

\* [t.strip().lower() for t in cfg.global_filters]
ExcludeKeywords(filters) == [i \in 1..Len(filters) |-> Lower(Strip(filters[i]))]

\* Episode.contains_any_words(keywords): some keyword is a substring of the
\* title, letter case ignored
contains_any_words(title, keywords) ==
  \E i \in 1..Len(keywords) : Contains(Lower(title), Lower(keywords[i]))

\* the titles of the records
Titles == {<<"a">>, <<"A", "b">>, <<"b">>}

RECURSIVE Lists(_, _)
Lists(elems, n) ==
  IF n = 0 THEN {<<>>}
  ELSE Lists(elems, n - 1)
         \cup {<<e>> \o l : e \in elems, l \in Lists(elems, n - 1)}

\* the regex argument: None, the empty string, three patterns that compile,
\* one with an open parenthesis and one with a repeat count of eleven digits
Regexes ==
  {NoneText, Text(<<>>), Text(<<"a">>), Text(<<".">>), Text(<<"^", "b">>),
   Text(<<"(">>),
   Text(<<"a", "{", "9", "9", "9", "9", "9", "9", "9", "9", "9", "9", "9", "}">>)}

\* os.getenv("DEBUG"): not set, set to the empty string, set to "1"
DebugValues == {NoneText, Text(<<>>), Text(<<"1">>)}

\* cfg.global_filters
FilterLists == {<<>>, <<<<" ", "A", " ">>>>, <<<<"B">>>>, <<<<" ">>>>}

\* if regex: ... the inclusion stage. A pattern that compiles keeps the
\* records with a match; re.error is raised again when DEBUG is set and
\* otherwise answered with a warning; another exception of re.compile is
\* not caught
f_regex ==
  /\ fpc = "regex"
  /\ IF ~TruthyText(regex)
     THEN fpc' = "global" /\ UNCHANGED <<kept, warned>>
     ELSE CASE Compile(regex.text) = "ok" ->
                 LET Matching(i) == Findall(regex.text, episodes[i])
                 IN /\ kept' = SelectSeq(kept, Matching)
                    /\ fpc' = "global"
                    /\ UNCHANGED warned
            [] Compile(regex.text) = "re.error" ->
                 IF TruthyText(debug)
                 THEN fpc' = "raised" /\ UNCHANGED <<kept, warned>>
                 ELSE fpc' = "global" /\ warned' = TRUE /\ UNCHANGED kept
            [] OTHER ->
                 fpc' = "raised" /\ UNCHANGED <<kept, warned>>
  /\ UNCHANGED <<episodes, regex, debug, enable_global_filters, global_filters>>
  /\ UNCHANGED <<uvars, cvars, nvars>>

\* the exclusion stage applied whether or not the global filters are enabled
f_global_always ==
  /\ fpc = "global"
  /\ LET exclude_keywords == ExcludeKeywords(global_filters)
         Passing(i) == ~contains_any_words(episodes[i], exclude_keywords)
     IN kept' = SelectSeq(kept, Passing)
  /\ fpc' = "done"
  /\ UNCHANGED <<episodes, regex, debug, enable_global_filters, global_filters,
                 warned>>
  /\ UNCHANGED <<uvars, cvars, nvars>>

\* if cfg.enable_global_filters: ... the exclusion stage, and return data
f_global ==
  /\ fpc = "global"
  /\ IF enable_global_filters
     THEN LET exclude_keywords == ExcludeKeywords(global_filters)
              Passing(i) == ~contains_any_words(episodes[i], exclude_keywords)
          IN kept' = SelectSeq(kept, Passing)
     ELSE UNCHANGED kept
  /\ fpc' = "done"
  /\ UNCHANGED <<episodes, regex, debug, enable_global_filters, global_filters,
                 warned>>
  /\ UNCHANGED <<uvars, cvars, nvars>>

InitFilter ==
  /\ UpdateQuiet
  /\ CoverQuiet
  /\ PathQuiet
  /\ episodes \in Lists(Titles, MaxRecords)
  /\ regex \in Regexes
  /\ debug \in DebugValues
  /\ enable_global_filters \in BOOLEAN
  /\ global_filters \in FilterLists
  /\ fpc = "regex"
  /\ kept = [i \in 1..Len(episodes) |-> i]
  /\ warned = FALSE

NextFilter ==
  \/ f_regex
  \/ f_global

SpecFilter == InitFilter /\ [][NextFilter]_vars

\* ------------------------------------------------- claims on check_update
\* a check_update call has ended, by returning or by an exception
Ended == pc = "idle" /\ result # "none"

\* the marker the call found holds an integer
Stored == PyInt(marker0.data).val

HeldInteger == marker0.exists /\ PyInt(marker0.data).ok

\* now - stored > 604800 for the time the call read at line 274: its whole
\* seconds clock0 and the fraction frac
Over7Days == clock0 - Stored > 604800 \/ (frac /\ clock0 - Stored = 604800)

\* C1 as stated: check_update(mark=True) on a marker holding an integer:
\* when now - stored > 604800 the marker is overwritten with that now and
\* the update check runs exactly once in the call; otherwise no update check
\* runs and the marker is left as it was.
C1_MarkerHoldsComparedTime ==
  (Ended /\ mark /\ HeldInteger) =>
    IF Over7Days
    THEN marker = FileOf(PyStr(clock0)) /\ checks = 1
    ELSE marker = marker0 /\ checks = 0

\* C1: check_update(mark=True) on a marker holding an integer: when
\* now - stored > 604800 for the time read at line 274, the marker is
\* overwritten with the time read when it is written (line 276) and the
\* update check runs exactly once in the call; otherwise no update check
\* runs and the marker is left as it was.
C1_StaleMarkerChecksOnce ==
  (Ended /\ mark /\ HeldInteger) =>
    IF Over7Days
    THEN marker = FileOf(PyStr(clock)) /\ checks = 1
    ELSE marker = marker0 /\ checks = 0

\* a marker exactly 604800 whole seconds old, compared within that second
\* and written in the next one
C1_Witness ==
  /\ Ended /\ mark /\ HeldInteger
  /\ clock0 - Stored = 604800 /\ frac
  /\ clock = clock0 + 1
  /\ marker = FileOf(PyStr(clock))
  /\ checks = 1
  /\ result = "returned"

\* C2: check_update(mark=True) without a marker file: the current time is
\* written to the marker, the update check runs exactly once in the call
\* (reading the marker just written starts no second one), and the marker
\* exists when the call ends.
C2_MissingMarkerChecksOnce ==
  (Ended /\ mark /\ ~marker0.exists) =>
    /\ checks = 1
    /\ marker.exists

\* an update check is due for the call: no marker, or one older than 7 days
Due == ~marker0.exists \/ (HeldInteger /\ Over7Days)

\* C3: check_update with the flag false and an update check due: the update
\* check is performed exactly once and then SystemExit reaches the caller.
C3_ForcedCheckOnceThenExit ==
  (Ended /\ ~mark /\ Due) => (checks = 1 /\ result = "SystemExit")

\* C4: check_update(mark=True) returns normally whatever the remote requests
\* of the update check and of the install do: no exception and no exit
\* signal reaches the caller.
C4_NoExitReachesCaller ==
  (Ended /\ mark) => result = "returned"

\* C11: the first update check of a call prints the 'please update bgmi'
\* warning if and only if the version the package index publishes is greater
\* than the compiled-in one compared component by component as integers
\* ("2.10" is newer than "2.9"); the step installs nothing.
C11_WarnIffNumericallyNewer ==
  [][(pc = "u_pypi" /\ checks = 0 /\ pc' = "u_pkg") =>
       /\ ("please_update" \in out') <=>
            ZeroPadGreater(IntList(latest'.data).val, IntList(BgmiVersion).val)
       /\ bundle' = bundle]_vars

\* the text is an integer literal: decimal digits, possibly signed, possibly
\* within white space
IntegerText(s) ==
  \E i \in 1..Len(s), j \in 1..Len(s) :
    /\ i <= j
    /\ \A k \in 1..Len(s) : (k < i \/ k > j) => s[k] \in {" ", "\n"}
    /\ \A k \in i..j : IsDigit(s[k]) \/ (k = i /\ k < j /\ s[k] \in {"+", "-"})

\* C15: when the marker file exists and its content is no integer,
\* check_update does nothing, whatever the flag: no update check runs, the
\* marker is left as it was and the call returns normally.
C15_MalformedMarkerDoesNothing ==
  (Ended /\ marker0.exists /\ ~IntegerText(marker0.data)) =>
    /\ checks = 0
    /\ marker = marker0
    /\ result = "returned"
    /\ out = {}

C15_Witness ==
  /\ Ended /\ ~mark
  /\ marker0 = FileOf(<<"x">>)
  /\ marker = marker0
  /\ checks = 0
  /\ result = "returned"

\* the marker holds a stamp taken during the running call
StampedInCall ==
  /\ marker.exists /\ PyInt(marker.data).ok
  /\ clock0 <= PyInt(marker.data).val
  /\ PyInt(marker.data).val <= clock

\* C17: the marker is stamped with the current time before an update check
\* runs; when the check of a call fails, the next call finds a stamp of
\* that call, and a call that starts within 7 days of the stamp it finds
\* runs no update check and leaves the marker: a failed check is not
\* retried inside the window.
C17_FailedCheckNotRetried ==
  /\ [][(pc = "u_pypi" /\ depth = 1 /\ checks' > checks) =>
         marker = FileOf(PyStr(clock))]_vars
  /\ [][("check_failed" \in out /\ pc = "idle" /\ pc' = "cu_exists") =>
         (StampedInCall /\ marker0' = marker)]_vars
  /\ []((Ended /\ HeldInteger /\ ~Over7Days) =>
         (checks = 0 /\ marker = marker0))

\* the second call starts one second after a first call whose update check
\* failed at the package index request, and runs no check
C17_Witness ==
  /\ Ended /\ calls = 2
  /\ ~latest.exists
  /\ marker0 = FileOf(PyStr(Now0))
  /\ clock0 = Now0 + 1
  /\ checks = 0
  /\ marker = marker0

\* ------------------------------------------------ claims on get_web_admin
\* C8: when get_web_admin fails in its first block by a connection failure
\* or a malformed JSON body, it ends with a warning and the bundle directory
\* and its manifest are as they were when it was called.
C8_FailedDownloadLeavesBundle ==
  [][(pc = "g_fetch" /\ gwa' = "returned") =>
       (bundle' = bundle0 /\ "download_failed" \in out' /\ pc' = "u_tail")]_vars

C8_Witness ==
  /\ pc = "u_tail"
  /\ gwa = "returned"
  /\ "download_failed" \in out
  /\ bundle = bundle0
  /\ bundle.manifest.exists
  /\ bundle.root # {}

\* the bundle holds the files of the archive's dist directory and nothing
\* else, all put there by the last install, and the manifest of its version
FullyNew ==
  /\ \A f \in bundle.root : f.gen = gen
  /\ {f.name : f \in bundle.root} = tar_file.dist
  /\ bundle.pkg.dist = {}
  /\ bundle.manifest = Manifest(version)

\* C9: once a get_web_admin call has completed, the bundle directory is
\* either the old bundle whole (its files, its manifest) or the new bundle
\* whole (no old file, every dist file under the root, the manifest of the
\* new version), never a mix.
C9_OldOrNewBundle ==
  gwa = "returned" => (bundle = bundle0 \/ FullyNew)

C9_Witness ==
  /\ gwa = "returned"
  /\ FullyNew
  /\ bundle # bundle0
  /\ bundle0.root # {}
  /\ "install_success" \in out

\* C10: in an update check get_web_admin is called if and only if a local
\* package.json exists and the remote version is greater than the local one
\* compared component by component with the shorter one zero-padded; without
\* a local manifest a hint is printed and nothing is installed.
C10_InstallIffRemoteNewerPadded ==
  [][pc = "u_pkg" =>
       /\ (pc' = "g_fetch") <=>
            /\ pc' # "u_except"
            /\ bundle.manifest.exists
            /\ ZeroPadGreater(IntList(admin_version').val,
                              IntList(local_version').val)
       /\ (pc' # "u_except" /\ ~bundle.manifest.exists) =>
            ("hint_install" \in out' /\ bundle' = bundle)]_vars

\* C18: the tarball is decompressed before the bundle directory is removed:
\* when decompression fails the bundle and its manifest are as they were at
\* the call; a get_web_admin call leaves the bundle neither old nor new only
\* by failing after the removal, in the extraction or the flattening.
C18_GunzipBeforeRmtree ==
  /\ [][(pc = "g_gunzip" /\ gwa' = "raised") =>
         (tar_file.kind = "badgzip" /\ bundle' = bundle0)]_vars
  /\ []((gwa \in {"returned", "raised", "exit"} /\ bundle # bundle0
           /\ ~FullyNew) =>
         (gwa = "raised" /\ tar_file.kind \in {"badtar", "nodist"}))

C18_Witness ==
  /\ pc = "u_except"
  /\ gwa = "raised"
  /\ tar_file.kind = "badgzip"
  /\ bundle = bundle0
  /\ bundle.manifest.exists
  /\ bundle.root # {}

\* the statements of get_web_admin
GwaPcs == {"g_fetch", "g_gunzip", "g_rmtree", "g_extract", "g_listdir", "g_move"}

\* C19: package.json is the last thing get_web_admin writes: the step that
\* puts a manifest there finds the old bundle removed and every dist file
\* moved to the root, and ends the call. A get_web_admin that fails after
\* the removal leaves no manifest; and without a manifest and outside an
\* install, no step makes one or calls get_web_admin: the update check
\* prints the install hint and the bundle is not repaired.
C19_ManifestLastNoRepair ==
  /\ [][(bundle'.manifest # bundle.manifest /\ bundle'.manifest.exists) =>
         /\ pc = "g_move" /\ todo = {} /\ bundle.pkg.dist = {}
         /\ \A f \in bundle.root : f.gen = gen
         /\ {f.name : f \in bundle.root} = tar_file.dist
         /\ bundle' = [bundle EXCEPT !.manifest = Manifest(version)]
         /\ gwa' = "returned"]_vars
  /\ [][(pc \in {"g_extract", "g_listdir", "g_move"} /\ gwa' = "raised") =>
         ~bundle'.manifest.exists]_vars
  /\ [][(~bundle.manifest.exists /\ pc \notin GwaPcs) =>
         /\ ~bundle'.manifest.exists
         /\ pc' \notin GwaPcs
         /\ (pc = "u_pkg" /\ pc' # "u_except") => "hint_install" \in out']_vars

\* a later call checks for updates on the directory a failed install left
\* and only prints the hint
C19_Witness ==
  /\ Ended /\ calls = 2
  /\ gen = 1 /\ installs = 0
  /\ checks > 0
  /\ "hint_install" \in out
  /\ bundle.pkg.exists
  /\ ~bundle.manifest.exists

\* ----------------------------------------------- claims on download_cover
\* download_cover has ended, by returning or by an exception
CoverEnded == cpc \in {"done", "raised"}

\* the fetch of entry i succeeds: an http(s) URL answered with status 200
Succeeds(i) ==
  /\ StartsWith(cover_url_list[i], Http) \/ StartsWith(cover_url_list[i], Https)
  /\ net[i] \in {"ok", "empty"}

Successes == {i \in 1..N : Succeeds(i)}

\* the bytes the fetch of entry i was answered with
BytesOf(i) == IF net[i] = "ok" THEN i ELSE 0

PathOf(i) == convert_cover_url_to_path(cover_url_list[i])[2]

\* C5: after download_cover on N URLs of which K fetches fail, exactly N-K
\* cover files exist, one for each successful URL at the path
\* convert_cover_url_to_path gives and with that URL's bytes, and none for a
\* failed URL.
C5_OneFilePerSuccess ==
  CoverEnded =>
    /\ covers = {[path |-> PathOf(i), data |-> BytesOf(i)] : i \in Successes}
    /\ Cardinality(covers) = Cardinality(Successes)

\* C6: a fetch failure is a value: download_file raises for no URL, so
\* download_cover never raises and the files of the successful URLs are
\* written.
C6_FetchFailureIsAValue ==
  /\ cpc # "raised"
  /\ cpc = "done" => \A i \in Successes : \E f \in covers : f.path = PathOf(i)

\* C7: at most 4 fetches are in progress at any moment, every input URL is
\* fetched exactly once, and no fetch is in progress when download_cover
\* ends.
C7_BoundedPoolEachOnce ==
  /\ Cardinality(running) <= 4
  /\ CoverEnded => (running = {} /\ \A i \in 1..N : fetched[i] = 1)

\* the last entry of the input list that succeeds and resolves to path p
LastFor(p) ==
  CHOOSE i \in Successes :
    /\ PathOf(i) = p
    /\ \A j \in Successes : PathOf(j) = p => j <= i

\* C16: no cover file is written before every fetch of the call has
\* finished; the writes then happen one at a time in the order of the input
\* list; so when download_cover returns, a path two successful URLs share
\* holds the bytes of the later entry, whatever order the fetches ended in.
C16_WritesAfterFetchesInOrder ==
  /\ [](covers # {} =>
         /\ cpc \in {"write", "done"}
         /\ taken = {} /\ running = {}
         /\ \A i \in 1..N : content_list[i] # Pending /\ fetched[i] = 1)
  /\ [][covers' # covers =>
         /\ index' = index + 1
         /\ index \in Successes
         /\ \A f \in covers : \E i \in 1..(index - 1) : f.path = PathOf(i)
         /\ covers' = {f \in covers : f.path # PathOf(index)}
                         \cup {[path |-> PathOf(index), data |-> BytesOf(index)]}]_vars
  /\ [](cpc = "done" =>
         covers = {[path |-> PathOf(i), data |-> BytesOf(LastFor(PathOf(i)))] :
                     i \in Successes})

\* two fetched URLs that resolve to one path: the file holds the second body
C16_Witness ==
  /\ cpc = "done"
  /\ N = 2
  /\ Successes = {1, 2}
  /\ PathOf(1) = PathOf(2)
  /\ cover_url_list[1] # cover_url_list[2]
  /\ covers = {[path |-> PathOf(2), data |-> 2]}

\* -------------------------------------------- claims on normalize_path
\* C12: normalize_path is idempotent: for every identifier s,
\* normalize_path(normalize_path(s)) = normalize_path(s).
C12_NormalizeIdempotent ==
  npc = 2 => twice = once

\* -------------------------------------- claims on episode_filter_regex
\* a regex was supplied and compiles
ValidRegex == TruthyText(regex) /\ Compile(regex.text) = "ok"

\* a regex was supplied and does not compile
Uncompilable == TruthyText(regex) /\ Compile(regex.text) # "ok"

\* record i has a match of the regex in its title
HasMatch(i) == Findall(regex.text, episodes[i])

\* record i contains none of the trimmed, lower-cased global keywords
NoKeyword(i) ==
  \A k \in 1..Len(global_filters) :
    ~Contains(Lower(episodes[i]), Lower(Strip(global_filters[k])))

\* the positions of the input, in order
AllRecords == [i \in 1..Len(episodes) |-> i]

AfterRegex ==
  LET Wanted(i) == ValidRegex => HasMatch(i)
  IN SelectSeq(AllRecords, Wanted)

AfterKeywords(l) ==
  LET Wanted(i) == enable_global_filters => NoKeyword(i)
  IN SelectSeq(l, Wanted)

\* C13: episode_filter_regex returns exactly the input records, in input
\* order, that have a match of the regex in their title (when a regex that
\* compiles is given) and contain none of the trimmed, lower-cased global
\* keywords (when the global filters are enabled); the regex stage comes
\* first; without regex and with the filters disabled the result is the
\* input; the input list is not modified.
C13_FilterKeepsExactlyMatching ==
  /\ [](fpc = "global" => kept = AfterRegex)
  /\ [](fpc = "done" => kept = AfterKeywords(AfterRegex))
  /\ []((fpc = "done" /\ ~TruthyText(regex) /\ ~enable_global_filters) =>
         kept = AllRecords)
  /\ [][episodes' = episodes]_vars

\* the regex keeps both records and the keyword " A " drops the first
C13_Witness ==
  /\ fpc = "done"
  /\ ValidRegex /\ enable_global_filters
  /\ episodes = <<<<"a">>, <<"b">>>>
  /\ HasMatch(1) /\ ~NoKeyword(1)
  /\ kept = <<2>>

\* C14: a regex that does not compile, with the debug flag not set, makes
\* episode_filter_regex warn and not raise: the regex stage drops no record
\* and the keyword stage is applied to the whole list; with the debug flag
\* set the compile error reaches the caller.
C14_BadRegexWarnsUnlessDebug ==
  /\ (Uncompilable /\ ~TruthyText(debug)) =>
       /\ fpc # "raised"
       /\ fpc = "done" => (warned /\ kept = AfterKeywords(AllRecords))
  /\ (Uncompilable /\ TruthyText(debug) /\ fpc # "regex") => fpc = "raised"

====
